---- MODULE Spec2Model ----
(***************************************************************************)
(* A model of socket.ts, a WebSocket client for node.js.                   *)
(*                                                                         *)
(*   src/src/socket.ts            class WebSocket: the opening handshake,  *)
(*                                the connection state, send/ping/pong/    *)
(*                                close and the dispatch of inbound data.  *)
(*   src/README.md, lines 91-259  class Packet: the frame decoder (the     *)
(*                                constructor and consume) and the frame   *)
(*                                encoder (Packet.frame).                  *)
(*                                                                         *)
(* Bytes are the integers 0..255 and a Buffer is a sequence of bytes.  A   *)
(* string is the sequence of its character codes; every string the model   *)
(* uses is ASCII, so its UTF-8 encoding is that same sequence.  An         *)
(* optional field (undefined in the source until it is assigned) is a      *)
(* sequence of length 0 (undefined) or 1 (the value).                      *)
(***************************************************************************)
EXTENDS Integers, Sequences, FiniteSets, TLC

None == <<>>
Some(x) == <<x>>

(***************************************************************************)
(* Bit operations on bytes, as the source's &, | and ^ compute them.       *)
(***************************************************************************)
RECURSIVE BitAnd(_, _)
BitAnd(a, b) ==
    IF a = 0 \/ b = 0 THEN 0
    ELSE (IF a % 2 = 1 /\ b % 2 = 1 THEN 1 ELSE 0) + 2 * BitAnd(a \div 2, b \div 2)

RECURSIVE BitXor(_, _)
BitXor(a, b) ==
    IF a = 0 THEN b
    ELSE IF b = 0 THEN a
    ELSE (((a % 2) + (b % 2)) % 2) + 2 * BitXor(a \div 2, b \div 2)

RECURSIVE BitOr(_, _)
BitOr(a, b) ==
    IF a = 0 THEN b
    ELSE IF b = 0 THEN a
    ELSE (IF a % 2 = 1 \/ b % 2 = 1 THEN 1 ELSE 0) + 2 * BitOr(a \div 2, b \div 2)

\* Buffer.readUInt16BE / readUInt32BE: the big-endian value of the bytes.
RECURSIVE ReadBE(_)
ReadBE(buf) ==
    IF Len(buf) = 0 THEN 0
    ELSE 256 * ReadBE(SubSeq(buf, 1, Len(buf) - 1)) + buf[Len(buf)]

\* Buffer.writeUInt16BE / writeUInt32BE: the n bytes of v, big-endian.
RECURSIVE WriteBE(_, _)
WriteBE(v, n) ==
    IF n = 0 THEN <<>> ELSE WriteBE(v \div 256, n - 1) \o <<v % 256>>

\* buffer.slice(n): the bytes from offset n on.
Slice(buf, n) == SubSeq(buf, n + 1, Len(buf))

(***************************************************************************)
(* class Packet: the decoder.                                              *)
(***************************************************************************)
GET_HEADER == 0
GET_PAYLOAD_LENGTH_16 == 1
GET_PAYLOAD_LENGTH_64 == 2
GET_MASK_KEY == 3
GET_PAYLOAD == 4
COMPLETE == 5

\* The fields of a Packet as the constructor finds them: state GET_HEADER,
\* data and size from the buffer, every other field undefined.  threw is the
\* message of the Error the constructor threw ("" while it has thrown none)
\* and hangs is set when consume enters its copy loop, which never ends.
NewPacket(data) ==
    [state |-> GET_HEADER, data |-> data, size |-> Len(data),
     fin |-> None, rsv1 |-> None, opcode |-> None, mask |-> None,
     payload |-> None, payload_length |-> None, mask_key |-> None,
     close_code |-> None, threw |-> "", hangs |-> FALSE, buf |-> <<>>]

\* (a variant of consume that leaves the size counter as it was)
consume_KeepsSize(p, n) ==
    IF n = Len(p.data) THEN [p EXCEPT !.buf = p.data]
    ELSE IF n < Len(p.data)
         THEN [p EXCEPT !.data = Slice(p.data, n), !.buf = SubSeq(p.data, 1, n)]
         ELSE [p EXCEPT !.hangs = TRUE]

\* consume(n): the packet after the call, its buf the bytes returned.  With
\* n = data.length the buffer itself is returned and data is left as it is;
\* with n < data.length data is cut; with n > data.length the do-while loop
\* runs with n unchanged and n > 0, so it never ends.
consume(p, n) ==
    LET q == [p EXCEPT !.size = p.size - n]
    IN  IF n = Len(p.data) THEN [q EXCEPT !.buf = p.data]
        ELSE IF n < Len(p.data)
             THEN [q EXCEPT !.data = Slice(p.data, n), !.buf = SubSeq(p.data, 1, n)]
             ELSE [q EXCEPT !.hangs = TRUE]

Running(p) == p.threw = "" /\ ~p.hangs

\* The header's two bytes read into the fields.
ParsedHeader(p) ==
    LET c == consume(p, 2)
        buf == c.buf
    IN  [c EXCEPT !.fin = Some(BitAnd(buf[1], 128) = 128),
                  !.rsv1 = Some(BitAnd(buf[1], 64) = 64),
                  !.opcode = Some(BitAnd(buf[1], 15)),
                  !.mask = Some(BitAnd(buf[2], 128) = 128),
                  !.payload_length = Some(BitAnd(buf[2], 127))]

\* The stage that follows the header, by the 7-bit length.
StageAfterHeader(len) ==
    IF len = 126 THEN GET_PAYLOAD_LENGTH_16
    ELSE IF len = 127 THEN GET_PAYLOAD_LENGTH_64
    ELSE GET_MASK_KEY

\* (a variant of StageHeader that lets a fragmented control frame through)
StageHeader_NoFinCheck(p) ==
    IF p.size < 2 THEN p
    ELSE LET h == ParsedHeader(p)
         IN  IF h.opcode[1] >= 8 /\ h.payload_length[1] > 125
             THEN [h EXCEPT !.threw = "control frames must be less than 125 bytes."]
             ELSE [h EXCEPT !.state = StageAfterHeader(h.payload_length[1])]

\* The header stage: two bytes, the control frame check, the next stage.
StageHeader(p) ==
    IF p.size < 2 THEN p
    ELSE LET h == ParsedHeader(p)
         IN  IF h.opcode[1] >= 8 /\ h.payload_length[1] > 125
             THEN [h EXCEPT !.threw = "control frames must be less than 125 bytes."]
             ELSE IF h.opcode[1] >= 8 /\ ~h.fin[1]
             THEN [h EXCEPT !.threw = "control frames must not be fragmented."]
             ELSE [h EXCEPT !.state = StageAfterHeader(h.payload_length[1])]

\* The extended length stages.
StageLength(p) ==
    IF ~Running(p) THEN p
    ELSE IF p.state = GET_PAYLOAD_LENGTH_16
    THEN IF p.size < 2 THEN p
         ELSE LET c == consume(p, 2)
              IN  IF c.hangs THEN c
                  ELSE [c EXCEPT !.payload_length = Some(ReadBE(c.buf)),
                                 !.state = GET_MASK_KEY]
    ELSE IF p.state = GET_PAYLOAD_LENGTH_64
    THEN IF p.size < 8 THEN p
         ELSE LET c == consume(p, 8)
              IN  IF c.hangs THEN c
                  ELSE [c EXCEPT !.payload_length = Some(ReadBE(c.buf)),
                                 !.state = GET_MASK_KEY]
    ELSE p

\* The mask key stage.
StageMaskKey(p) ==
    IF ~Running(p) \/ p.state # GET_MASK_KEY THEN p
    ELSE IF p.mask = Some(TRUE)
    THEN IF p.size < 4 THEN p
         ELSE LET c == consume(p, 4)
              IN  IF c.hangs THEN c
                  ELSE [c EXCEPT !.mask_key = Some(c.buf), !.state = GET_PAYLOAD]
    ELSE [p EXCEPT !.state = GET_PAYLOAD]

\* (a variant of Unmask that indexes the key by idx % 3)
Unmask_Mod3(payload, key) ==
    IF BitOr(BitOr(key[1], key[2]), BitOr(key[3], key[4])) # 0
    THEN [idx \in 1..Len(payload) |-> BitXor(payload[idx], key[((idx - 1) % 3) + 1])]
    ELSE payload

\* The unmasking loop: skipped for a key of four zero bytes.
Unmask(payload, key) ==
    IF BitOr(BitOr(key[1], key[2]), BitOr(key[3], key[4])) # 0
    THEN [idx \in 1..Len(payload) |-> BitXor(payload[idx], key[BitAnd(idx - 1, 3) + 1])]
    ELSE payload

\* (a variant of ClosePostProcess that takes a code from two bytes or more only)
ClosePostProcess_NoLengthCheck(p) ==
    IF p.opcode = Some(8) /\ p.payload_length[1] >= 2
    THEN [p EXCEPT !.close_code = Some(ReadBE(SubSeq(p.payload[1], 1, 2))),
                   !.payload = Some(Slice(p.payload[1], 2)),
                   !.state = COMPLETE]
    ELSE [p EXCEPT !.state = COMPLETE]

\* The close frame handling at the end of the payload stage.
ClosePostProcess(p) ==
    IF p.opcode = Some(8)
    THEN IF p.payload_length = Some(1)
         THEN [p EXCEPT !.threw = "close frame length is not valid."]
         ELSE IF p.payload_length[1] >= 2
              THEN [p EXCEPT !.close_code = Some(ReadBE(SubSeq(p.payload[1], 1, 2))),
                             !.payload = Some(Slice(p.payload[1], 2)),
                             !.state = COMPLETE]
              ELSE [p EXCEPT !.state = COMPLETE]
    ELSE [p EXCEPT !.state = COMPLETE]

\* The payload stage.
StagePayload(p) ==
    IF ~Running(p) \/ p.state # GET_PAYLOAD THEN p
    ELSE IF p.payload_length = Some(0)
    THEN [p EXCEPT !.payload = Some(<<>>), !.state = COMPLETE]
    ELSE IF p.size < p.payload_length[1] THEN p
    ELSE LET c == consume(p, p.payload_length[1])
             q == IF c.mask = Some(TRUE) /\ c.mask_key # None
                  THEN [c EXCEPT !.payload = Some(Unmask(c.buf, c.mask_key[1]))]
                  ELSE [c EXCEPT !.payload = Some(c.buf)]
         IN  IF c.hangs THEN c ELSE ClosePostProcess(q)

\* new Packet(data)
Packet(data) == StagePayload(StageMaskKey(StageLength(StageHeader(NewPacket(data)))))

(***************************************************************************)
(* Packet.frame: the encoder.  key stands for the four values the source   *)
(* draws from Math.random; the model never holds a payload of 2^31 bytes   *)
(* or more, so the high word of the 64-bit length is 0.                    *)
(***************************************************************************)
\* The payload after the masking loop, which XORs the caller's buffer in place.
MaskInPlace(payload, key) ==
    [idx \in 1..Len(payload) |-> BitXor(payload[idx], key[((idx - 1) % 4) + 1])]

\* The header and extension bytes (dest), before the payload is appended.
FrameHeader(opcode, size, fin, mask, key) ==
    LET b0 == (IF fin THEN 128 ELSE 0) + opcode
        b1 == IF mask THEN 128 ELSE 0
        ext == IF size < 126 THEN <<b1 + size>>
               ELSE IF size < 65536 THEN <<b1 + 126>> \o WriteBE(size, 2)
               ELSE <<b1 + 127>> \o WriteBE(0, 4) \o WriteBE(size, 4)
    IN  <<b0>> \o ext \o (IF mask THEN key ELSE <<>>)

\* frame(opcode, payload, fin, rsv1, mask): bytes is the Buffer returned and
\* payload the caller's buffer as the call leaves it.
frame(opcode, payload, fin, rsv1, mask, key) ==
    LET after == IF mask THEN MaskInPlace(payload, key) ELSE payload
    IN  [bytes |-> FrameHeader(opcode, Len(payload), fin, mask, key) \o after,
         payload |-> after]

(***************************************************************************)
(* class WebSocket.                                                        *)
(***************************************************************************)
CONNECTING == 0
OPEN == 1
CLOSING == 2
CLOSED == 3

\* Bounds of the model.
MaxProtocols == 2   \* the longest requested subprotocol list
MaxSteps == 2       \* user calls and transport deliveries in one run
MaxLen == 2         \* the longest enumerated payload of the codec inputs

\* Strings of the model, as character codes.
Str_chat == <<99, 104, 97, 116>>          \* "chat"
Str_v2 == <<118, 50>>                     \* "v2"
Str_a_b == <<97, 32, 98>>                 \* "a b": the space is no token character
AbnormalClosure ==                        \* 'Abnormal Closure'
    <<65, 98, 110, 111, 114, 109, 97, 108, 32, 67, 108, 111, 115, 117, 114, 101>>

\* The characters of protocol_regex: [!#$%&'*+\-.0-9A-Z^_`|a-z~]
TokenChars ==
    {33, 35, 36, 37, 38, 39, 42, 43, 45, 46, 94, 95, 96, 124, 126}
        \cup (48..57) \cup (65..90) \cup (97..122)

\* protocol_regex.test(protocol): one or more characters, all of the class.
protocol_regex_test(protocol) ==
    Len(protocol) > 0 /\ \A i \in 1..Len(protocol) : protocol[i] \in TokenChars

\* (a variant of ValidateProtocols that does not look for duplicates)
RECURSIVE ValidateProtocols_NoDuplicateCheck(_, _, _)
ValidateProtocols_NoDuplicateCheck(list, i, set) ==
    IF i > Len(list) THEN [threw |-> FALSE, set |-> set]
    ELSE IF ~protocol_regex_test(list[i])
         THEN [threw |-> TRUE, set |-> set]
         ELSE ValidateProtocols_NoDuplicateCheck(list, i + 1, set \cup {list[i]})

\* The constructor's loop over this.protocols from index i on, with the
\* tokens already added to protocol_set: the set it ends with, or the throw.
RECURSIVE ValidateProtocols(_, _, _)
ValidateProtocols(list, i, set) ==
    IF i > Len(list) THEN [threw |-> FALSE, set |-> set]
    ELSE IF ~protocol_regex_test(list[i]) \/ list[i] \in set
         THEN [threw |-> TRUE, set |-> set]
         ELSE ValidateProtocols(list, i + 1, set \cup {list[i]})

\* createHash('sha1').update(nonce + GUID).digest('base64'): SHA-1 is not
\* computed; the digest is an injective function of the nonce.
Digest(n) == <<115, 49, n>>

VARIABLES
    phase,          \* the constructor: "new" (not yet run), "threw", "constructed"
    protocols,      \* this.protocols
    has_timeout,    \* options.handshakeTimeout is set (client.timeout is truthy)
    nonce,          \* this.nonce
    protocol_set,   \* the constructor's protocol_set, which the upgrade handler reads
    req,            \* this.req: "none", "pending", "responded", "upgraded", "errored"
    req_destroyed,  \* this.req.destroyed
    pc,             \* "idle", or the event whose listeners are running while
                    \* the handler that emitted it has code left to run:
                    \* "http-response", "upgrade"
    resp,           \* the response of the upgrade being handled
    socket,         \* this.socket: "undefined" or "set"
    transport,      \* the net.Socket of the upgrade: "none", "open", "ended",
                    \* "destroyed", "closed"
    state,          \* this.state
    closeCode,      \* this.closeCode
    closeReason,    \* this.closeReason
    events,         \* every event emitted, in order
    written,        \* every buffer passed to this.socket.write, in order
    thrown,         \* the message of the Error the last call or handler threw
    delivered,      \* every chunk the socket's 'data' event carried, in order
    dispatched,     \* every packet a case of socket_on_data's switch handled
    steps,          \* user calls and deliveries so far
    codec           \* the codec's inputs and results (specification SpecCodec)

conn_vars == <<phase, protocols, has_timeout, nonce, protocol_set, req,
               req_destroyed, pc, resp, socket, transport, state, closeCode,
               closeReason, events, written, thrown, delivered, dispatched, steps>>
vars == <<conn_vars, codec>>

NoResp == [accept |-> None, protocol |-> None]
NoCodec == [stage |-> "none"]

\* An emitted event: its name and arguments (code and data of 'close', the
\* payload of 'message', 'ping' and 'pong', the description of 'error').
Event(name, code, data, text) == [name |-> name, code |-> code, data |-> data, text |-> text]

Tokens == {Str_chat, Str_a_b}
RECURSIVE SeqsUpTo(_, _)
SeqsUpTo(S, n) ==
    IF n = 0 THEN {<<>>}
    ELSE LET shorter == SeqsUpTo(S, n - 1)
         IN  shorter \cup {Append(q, e) : q \in {r \in shorter : Len(r) = n - 1}, e \in S}
ProtocolLists == SeqsUpTo(Tokens, MaxProtocols)
Nonces == {1, 2}

\* The fields as their initializers leave them, before the constructor's body.
ConnInit ==
    /\ phase = "new"
    /\ protocols \in ProtocolLists
    /\ has_timeout \in BOOLEAN
    /\ nonce \in Nonces
    /\ protocol_set = {}
    /\ req = "none"
    /\ req_destroyed = FALSE
    /\ pc = "idle"
    /\ resp = NoResp
    /\ socket = "undefined"
    /\ transport = "none"
    /\ state = CONNECTING
    /\ closeCode = 1006
    /\ closeReason = <<>>
    /\ events = <<>>
    /\ written = <<>>
    /\ thrown = ""
    /\ delivered = <<>>
    /\ dispatched = <<>>
    /\ steps = 0

Init == ConnInit /\ codec = NoCodec

\* The constructor: the subprotocol validation, then the request.
Construct ==
    /\ phase = "new"
    /\ LET v == ValidateProtocols(protocols, 1, {})
       IN  IF Len(protocols) > 0 /\ v.threw
           THEN /\ phase' = "threw"
                /\ thrown' = "subprotocol cannot be duplicated or invalid."
                /\ UNCHANGED <<protocol_set, req>>
           ELSE /\ phase' = "constructed"
                /\ protocol_set' = v.set
                /\ req' = "pending"
                /\ UNCHANGED thrown
    /\ UNCHANGED <<protocols, has_timeout, nonce, req_destroyed, pc, resp, socket,
                   transport, state, closeCode, closeReason, events, written,
                   delivered, dispatched, steps, codec>>

\* this.req.destroy(): the request is destroyed and, once the upgrade has
\* handed over its socket, that socket with it.
req_destroy ==
    /\ req_destroyed' = TRUE
    /\ transport' = IF transport \in {"open", "ended"} THEN "destroyed" ELSE transport

\* (a variant of emit_close that emits the default code and reason)
emit_close_Defaults(evs) ==
    /\ state' = CLOSED
    /\ events' = Append(evs, Event("close", 1006, Some(<<>>), ""))

\* emit_close, after the events evs: the state, then the 'close' event.
emit_close(evs) ==
    /\ state' = CLOSED
    /\ events' = Append(evs, Event("close", closeCode, Some(closeReason), ""))

\* emit_error_and_close: CLOSING, the 'error' event, then emit_close.  No
\* socket is set whenever it runs, so a call a listener of 'error' makes
\* while the state is CLOSING changes nothing, and the steps are one.
emit_error_and_close(error) ==
    emit_close(Append(events, Event("error", 0, None, error)))

handshake_failed(description) ==
    /\ req_destroy
    /\ emit_error_and_close(description)

\* set_socket: the listeners, this.socket, OPEN, the 'open' event.
set_socket ==
    /\ socket' = "set"
    /\ state' = OPEN
    /\ events' = Append(events, Event("open", 0, None, ""))

\* this.socket?.write(packet)
socket_write(packet) ==
    written' = IF socket = "set" THEN Append(written, packet) ELSE written

(***************************************************************************)
(* The request's events.  The request emits 'timeout', 'response' and      *)
(* 'upgrade' only while it is pending and not destroyed; 'error' also      *)
(* after a destroy (the socket hang up that follows it).                   *)
(***************************************************************************)
\* req.on('timeout'), registered when client.timeout is truthy.
ReqTimeout ==
    /\ phase = "constructed" /\ pc = "idle"
    /\ has_timeout /\ req = "pending" /\ ~req_destroyed
    /\ handshake_failed("opening handshake has timed out.")
    /\ thrown' = ""
    /\ UNCHANGED <<phase, protocols, has_timeout, nonce, protocol_set, req, pc, resp,
                   socket, closeCode, closeReason, written, delivered, dispatched,
                   steps, codec>>

\* req.on('error').  hangup: node destroyed the request itself before it
\* emitted the error (the server closed the connection without a response).
ReqError(hangup) ==
    /\ phase = "constructed" /\ pc = "idle"
    /\ req = "pending"
    /\ req' = "errored"
    /\ IF req_destroyed \/ hangup
       THEN /\ req_destroyed' = TRUE
            /\ UNCHANGED <<transport, state, events>>
       ELSE /\ req_destroy
            /\ emit_error_and_close("request error")
    /\ thrown' = ""
    /\ UNCHANGED <<phase, protocols, has_timeout, nonce, protocol_set, pc, resp,
                   socket, closeCode, closeReason, written, delivered, dispatched,
                   steps, codec>>

\* req.on('response'), up to the call of the 'http-response' listeners.
ReqResponse ==
    /\ phase = "constructed" /\ pc = "idle"
    /\ req = "pending" /\ ~req_destroyed
    /\ req' = "responded"
    /\ events' = Append(events, Event("http-response", 0, None, ""))
    /\ pc' = "http-response"
    /\ thrown' = ""
    /\ UNCHANGED <<phase, protocols, has_timeout, nonce, protocol_set, req_destroyed,
                   resp, socket, transport, state, closeCode, closeReason, written,
                   delivered, dispatched, steps, codec>>

\* req.on('response'), from the return of the listeners on.
ResponseRest ==
    /\ pc = "http-response"
    /\ pc' = "idle"
    /\ handshake_failed("unexpected server response")
    /\ UNCHANGED <<phase, protocols, has_timeout, nonce, protocol_set, req, resp,
                   socket, closeCode, closeReason, written, thrown, delivered,
                   dispatched, steps, codec>>

\* The values of the response headers the upgrade handler reads.
Accepts == {None} \cup {Some(Digest(n)) : n \in Nonces}
ServerProtocols == {None, Some(<<>>), Some(Str_chat), Some(Str_v2)}

\* req.on('upgrade'), up to the call of the 'upgrade' listeners.
ReqUpgrade(accept, server_protocol) ==
    /\ phase = "constructed" /\ pc = "idle"
    /\ req = "pending" /\ ~req_destroyed
    /\ req' = "upgraded"
    /\ transport' = "open"
    /\ resp' = [accept |-> accept, protocol |-> server_protocol]
    /\ events' = Append(events, Event("upgrade", 0, None, ""))
    /\ pc' = "upgrade"
    /\ thrown' = ""
    /\ UNCHANGED <<phase, protocols, has_timeout, nonce, protocol_set, req_destroyed,
                   socket, state, closeCode, closeReason, written, delivered,
                   dispatched, steps, codec>>

\* (a variant of UpgradeFailure that takes any subprotocol once some were requested)
UpgradeFailure_AnyProtocol(accept, server_protocol) ==
    IF accept # Some(Digest(nonce))
    THEN "sec-websocket-accept header is not valid."
    ELSE IF server_protocol # None /\ server_protocol # Some(<<>>)
         THEN IF protocol_set = {}
              THEN "nothing was requested, but the server sent a subprotocol."
              ELSE ""
         ELSE IF protocol_set # {}
              THEN "server sent no subprotocol."
              ELSE ""

\* The upgrade handler's checks: "" when the response passes them, else the
\* description handshake_failed is called with.  A header that is absent or
\* the empty string is falsy.
UpgradeFailure(accept, server_protocol) ==
    IF accept # Some(Digest(nonce))
    THEN "sec-websocket-accept header is not valid."
    ELSE IF server_protocol # None /\ server_protocol # Some(<<>>)
         THEN IF protocol_set = {}
              THEN "nothing was requested, but the server sent a subprotocol."
              ELSE IF server_protocol[1] \notin protocol_set
                   THEN "server sent a invalid subprotocol."
                   ELSE ""
         ELSE IF protocol_set # {}
              THEN "server sent no subprotocol."
              ELSE ""

\* req.on('upgrade'), from the return of the listeners on.
UpgradeRest ==
    /\ pc = "upgrade"
    /\ pc' = "idle"
    /\ resp' = NoResp
    /\ LET failure == UpgradeFailure(resp.accept, resp.protocol)
       IN  IF failure # ""
           THEN /\ handshake_failed(failure)
                /\ UNCHANGED socket
           ELSE /\ set_socket
                /\ UNCHANGED <<req_destroyed, transport>>
    /\ UNCHANGED <<phase, protocols, has_timeout, nonce, protocol_set, req,
                   closeCode, closeReason, written, thrown, delivered, dispatched,
                   steps, codec>>

(***************************************************************************)
(* The user's calls.  They are made between handlers (pc = "idle") and by  *)
(* the listeners of 'http-response' and 'upgrade' (the other events are    *)
(* emitted last in their handlers, so a call from their listeners is a     *)
(* call made after the handler).  key is the mask key frame draws.         *)
(***************************************************************************)
Keys == {<<0, 0, 0, 0>>, <<1, 2, 3, 4>>}
CallKeys == {<<1, 2, 3, 4>>}
Long(n) == [i \in 1..n |-> 120]
SendData == {[is_buf |-> TRUE, bytes |-> <<1>>], [is_buf |-> FALSE, bytes |-> <<104, 105>>]}
PingData == {<<66>>, Long(125), Long(126)}
CloseCodes == {1000}
CloseReasons == {<<120>>, Long(123), Long(124)}

\* send, ping and pong are modelled between handlers only: called by a
\* listener of 'http-response' or 'upgrade' they throw (the state is
\* CONNECTING) or, after a close() of that listener, find no socket to write to.
CanCall == phase = "constructed" /\ steps < MaxSteps /\ pc = "idle"
CanClose == phase = "constructed" /\ steps < MaxSteps /\ pc \in {"idle", "http-response", "upgrade"}

send(data, key) ==
    /\ CanCall
    /\ steps' = steps + 1
    /\ IF state = CONNECTING
       THEN /\ thrown' = "send -> websocket is connecting."
            /\ UNCHANGED written
       ELSE /\ thrown' = ""
            /\ socket_write(frame(IF data.is_buf THEN 2 ELSE 1, data.bytes,
                                  TRUE, FALSE, TRUE, key).bytes)
    /\ UNCHANGED <<phase, protocols, has_timeout, nonce, protocol_set, req,
                   req_destroyed, pc, resp, socket, transport, state, closeCode,
                   closeReason, events, delivered, dispatched, codec>>

\* (a variant of ping_or_pong without the check of the state)
ping_or_pong_NoStateCheck(opcode, connecting, too_long, payload, key) ==
    IF Len(payload) > 125
    THEN /\ thrown' = too_long
         /\ UNCHANGED written
    ELSE /\ thrown' = ""
         /\ socket_write(frame(opcode, payload, TRUE, FALSE, TRUE, key).bytes)

\* The body ping and pong share, but for the opcode and the messages.
ping_or_pong(opcode, connecting, too_long, payload, key) ==
    IF state = CONNECTING
    THEN /\ thrown' = connecting
         /\ UNCHANGED written
    ELSE IF Len(payload) > 125
    THEN /\ thrown' = too_long
         /\ UNCHANGED written
    ELSE /\ thrown' = ""
         /\ socket_write(frame(opcode, payload, TRUE, FALSE, TRUE, key).bytes)

ping(data, key) ==
    /\ CanCall
    /\ steps' = steps + 1
    /\ ping_or_pong(9, "ping -> websocket is connecting.",
                    "payload for PING(0x09) is longer than 125 bytes.", data, key)
    /\ UNCHANGED <<phase, protocols, has_timeout, nonce, protocol_set, req,
                   req_destroyed, pc, resp, socket, transport, state, closeCode,
                   closeReason, events, delivered, dispatched, codec>>

pong(data, key) ==
    /\ CanCall
    /\ steps' = steps + 1
    /\ ping_or_pong(10, "pong -> websocket is connecting.",
                    "payload for PONG(0x0a) is longer than 125 bytes.", data, key)
    /\ UNCHANGED <<phase, protocols, has_timeout, nonce, protocol_set, req,
                   req_destroyed, pc, resp, socket, transport, state, closeCode,
                   closeReason, events, delivered, dispatched, codec>>

\* this.socket?.end()
socket_end ==
    transport' = IF socket = "set" /\ transport = "open" THEN "ended" ELSE transport

\* (a variant of close that writes a Close frame again while CLOSING)
close_WritesWhenClosing(code, reason, key) ==
    /\ CanClose
    /\ steps' = steps + 1
    /\ IF state = CLOSED
       THEN /\ thrown' = ""
            /\ UNCHANGED <<req_destroyed, transport, state, closeCode, closeReason,
                           events, written>>
       ELSE IF state = CONNECTING
       THEN /\ handshake_failed("websocket was closed before the connection was established.")
            /\ thrown' = ""
            /\ UNCHANGED <<closeCode, closeReason, written>>
       ELSE IF state = CLOSING
       THEN /\ socket_end
            /\ thrown' = ""
            /\ socket_write(frame(8, WriteBE(code, 2) \o reason,
                                  TRUE, FALSE, TRUE, key).bytes)
            /\ UNCHANGED <<req_destroyed, state, closeCode, closeReason, events>>
       ELSE /\ state' = CLOSING
            /\ IF Len(reason) > 123
               THEN /\ thrown' = "close reason must be less than 132 bytes."
                    /\ UNCHANGED <<closeCode, closeReason, written>>
               ELSE /\ thrown' = ""
                    /\ closeCode' = code
                    /\ closeReason' = reason
                    /\ socket_write(frame(8, WriteBE(code, 2) \o reason,
                                          TRUE, FALSE, TRUE, key).bytes)
            /\ UNCHANGED <<req_destroyed, transport, events>>
    /\ UNCHANGED <<phase, protocols, has_timeout, nonce, protocol_set, req, pc, resp,
                   socket, delivered, dispatched, codec>>

close(code, reason, key) ==
    /\ CanClose
    /\ steps' = steps + 1
    /\ IF state = CLOSED
       THEN /\ thrown' = ""
            /\ UNCHANGED <<req_destroyed, transport, state, closeCode, closeReason,
                           events, written>>
       ELSE IF state = CONNECTING
       THEN /\ handshake_failed("websocket was closed before the connection was established.")
            /\ thrown' = ""
            /\ UNCHANGED <<closeCode, closeReason, written>>
       ELSE IF state = CLOSING
       THEN /\ socket_end
            /\ thrown' = ""
            /\ UNCHANGED <<req_destroyed, state, closeCode, closeReason, events, written>>
       ELSE /\ state' = CLOSING
            /\ IF Len(reason) > 123
               THEN /\ thrown' = "close reason must be less than 132 bytes."
                    /\ UNCHANGED <<closeCode, closeReason, written>>
               ELSE /\ thrown' = ""
                    /\ closeCode' = code
                    /\ closeReason' = reason
                    /\ socket_write(frame(8, WriteBE(code, 2) \o reason,
                                          TRUE, FALSE, TRUE, key).bytes)
            /\ UNCHANGED <<req_destroyed, transport, events>>
    /\ UNCHANGED <<phase, protocols, has_timeout, nonce, protocol_set, req, pc, resp,
                   socket, delivered, dispatched, codec>>

(***************************************************************************)
(* The socket's events, which set_socket listens to.                       *)
(***************************************************************************)
NoKey == <<0, 0, 0, 0>>
ServerFrame(opcode, payload, fin) == frame(opcode, payload, fin, FALSE, FALSE, NoKey).bytes

F_text == ServerFrame(1, <<65>>, TRUE)
F_binary == ServerFrame(2, <<7>>, TRUE)
F_continuation == ServerFrame(0, <<65>>, TRUE)
F_ping == ServerFrame(9, <<66>>, TRUE)
F_pong == ServerFrame(10, <<>>, TRUE)
F_close == ServerFrame(8, WriteBE(1000, 2) \o <<67>>, TRUE)
F_close_code == ServerFrame(8, WriteBE(1001, 2), TRUE)
F_close_empty == ServerFrame(8, <<>>, TRUE)
\* Frames the decoder must refuse.
F_close_1 == ServerFrame(8, <<65>>, TRUE)
F_ping_fragment == ServerFrame(9, <<>>, FALSE)
F_ping_long == ServerFrame(9, Long(126), TRUE)

WellFormed == {F_text, F_binary, F_continuation, F_ping, F_pong, F_close,
               F_close_code, F_close_empty}
Malformed == {F_close_1, F_ping_fragment, F_ping_long}
\* A frame cut in two at every place.
Pieces(f) == {SubSeq(f, 1, k) : k \in 1..(Len(f) - 1)} \cup {Slice(f, k) : k \in 1..(Len(f) - 1)}
\* Two frames in one delivery.
Pairs == {F_text \o F_ping, F_ping \o F_binary}
Chunks == WellFormed \cup Malformed \cup Pieces(F_text) \cup {SubSeq(F_ping, 1, 2)} \cup Pairs

\* The case of socket_on_data's switch a packet enters, with the fields the
\* cases read: no entry when the constructor threw or the opcode has no case.
Dispatch(packet) ==
    IF packet.threw = "" /\ ~packet.hangs
       /\ packet.opcode \in {Some(0), Some(1), Some(2), Some(8), Some(9), Some(10)}
    THEN <<[opcode |-> packet.opcode[1], payload |-> packet.payload,
            close_code |-> packet.close_code]>>
    ELSE <<>>

\* socket_on_data: new Packet(data), then the switch on its opcode.
socket_on_data(data, key) ==
    LET packet == Packet(data)
        entry == Dispatch(packet)[1]
    IN  IF packet.hangs
        THEN \* consume never returns, and neither does the handler
             /\ pc' = "hung"
             /\ UNCHANGED <<transport, closeCode, closeReason, events, written,
                            thrown, dispatched>>
        ELSE IF packet.threw # ""
        THEN \* the constructor's Error leaves the listener
             /\ thrown' = packet.threw
             /\ UNCHANGED <<transport, closeCode, closeReason, events, written,
                            dispatched, pc>>
        ELSE IF packet.opcode = Some(0)
        THEN /\ dispatched' = Append(dispatched, entry)
             /\ thrown' = ""
             /\ UNCHANGED <<transport, closeCode, closeReason, events, written, pc>>
        ELSE IF packet.opcode \in {Some(1), Some(2)}
        THEN /\ events' = Append(events, Event("message", 0, packet.payload, ""))
             /\ dispatched' = Append(dispatched, entry)
             /\ thrown' = ""
             /\ UNCHANGED <<transport, closeCode, closeReason, written, pc>>
        ELSE IF packet.opcode = Some(8)
        THEN /\ closeCode' = IF packet.close_code \in {None, Some(0)}
                             THEN 1006 ELSE packet.close_code[1]
             /\ closeReason' = IF packet.payload \in {None, Some(<<>>)}
                               THEN AbnormalClosure ELSE packet.payload[1]
             /\ transport' = "destroyed"
             /\ dispatched' = Append(dispatched, entry)
             /\ thrown' = ""
             /\ UNCHANGED <<events, written, pc>>
        ELSE IF packet.opcode = Some(9)
        THEN \* this.pong(packet.payload), then the 'ping' event with the
             \* buffer frame has masked in place
             IF state = CONNECTING
             THEN /\ thrown' = "pong -> websocket is connecting."
                  /\ dispatched' = Append(dispatched, entry)
                  /\ UNCHANGED <<transport, closeCode, closeReason, events, written, pc>>
             ELSE IF packet.payload = None
             THEN \* Buffer.from(undefined) throws a TypeError
                  /\ thrown' = "TypeError"
                  /\ dispatched' = Append(dispatched, entry)
                  /\ UNCHANGED <<transport, closeCode, closeReason, events, written, pc>>
             ELSE LET reply == frame(10, packet.payload[1], TRUE, FALSE, TRUE, key)
                  IN  /\ socket_write(reply.bytes)
                      /\ events' = Append(events, Event("ping", 0, Some(reply.payload), ""))
                      /\ dispatched' = Append(dispatched, entry)
                      /\ thrown' = ""
                      /\ UNCHANGED <<transport, closeCode, closeReason, pc>>
        ELSE IF packet.opcode = Some(10)
        THEN /\ events' = Append(events, Event("pong", 0, packet.payload, ""))
             /\ dispatched' = Append(dispatched, entry)
             /\ thrown' = ""
             /\ UNCHANGED <<transport, closeCode, closeReason, written, pc>>
        ELSE /\ thrown' = ""
             /\ UNCHANGED <<transport, closeCode, closeReason, events, written,
                            dispatched, pc>>

\* socket.on('data'): a chunk arrives while the socket is readable.
SocketData(data, key) ==
    /\ phase = "constructed" /\ pc = "idle"
    /\ socket = "set" /\ transport \in {"open", "ended"}
    /\ steps < MaxSteps
    /\ steps' = steps + 1
    /\ delivered' = Append(delivered, data)
    /\ socket_on_data(data, key)
    /\ UNCHANGED <<phase, protocols, has_timeout, nonce, protocol_set, req,
                   req_destroyed, resp, socket, state, codec>>

\* The socket emits 'error' (an I/O error of the transport).  set_socket
\* registers listeners of 'data' and 'close' only, so the emit of 'error'
\* throws the error as an uncaught exception; no method of the connection
\* runs.  The socket is destroyed, and its 'close' follows if the process
\* survives the exception.
SocketError ==
    /\ phase = "constructed" /\ pc = "idle"
    /\ socket = "set" /\ transport \in {"open", "ended"}
    /\ transport' = "errored"
    /\ thrown' = "Unhandled 'error' event"
    /\ UNCHANGED <<phase, protocols, has_timeout, nonce, protocol_set, req,
                   req_destroyed, pc, resp, socket, state, closeCode, closeReason,
                   events, written, delivered, dispatched, steps, codec>>

\* socket.on('close'): the socket closes, once.
SocketClose ==
    /\ phase = "constructed" /\ pc = "idle"
    /\ socket = "set" /\ transport \in {"open", "ended", "destroyed", "errored"}
    /\ transport' = "closed"
    /\ emit_close(events)
    /\ thrown' = ""
    /\ UNCHANGED <<phase, protocols, has_timeout, nonce, protocol_set, req,
                   req_destroyed, pc, resp, socket, closeCode, closeReason, written,
                   delivered, dispatched, steps, codec>>

Next ==
    \/ Construct
    \/ ReqTimeout
    \/ \E hangup \in BOOLEAN : ReqError(hangup)
    \/ ReqResponse
    \/ ResponseRest
    \/ \E accept \in Accepts, server_protocol \in ServerProtocols :
          ReqUpgrade(accept, server_protocol)
    \/ UpgradeRest
    \/ \E data \in SendData, key \in CallKeys : send(data, key)
    \/ \E data \in PingData, key \in CallKeys : ping(data, key)
    \/ \E data \in PingData, key \in CallKeys : pong(data, key)
    \/ \E code \in CloseCodes, reason \in CloseReasons, key \in CallKeys :
          close(code, reason, key)
    \/ \E data \in Chunks, key \in Keys : SocketData(data, key)
    \/ SocketError
    \/ SocketClose

Spec == Init /\ [][Next]_vars

(***************************************************************************)
(* The codec on its own: Packet.frame and new Packet applied to inputs     *)
(* drawn from bounded sets.  The connection is left unconstructed.         *)
(***************************************************************************)
Opcodes == {0, 1, 2, 8, 9, 10}
ByteSamples == {0, 65, 255}
CodecKeys == Keys \cup {<<255, 0, 128, 7>>}
Payloads == SeqsUpTo(ByteSamples, MaxLen) \cup {Long(125), Long(126)}

\* The arguments of a call of Packet.frame.
FrameInputs ==
    [stage : {"input"}, opcode : Opcodes, payload : Payloads, fin : BOOLEAN,
     mask : BOOLEAN, key : CodecKeys]
    \cup [stage : {"input"}, opcode : {2, 9}, payload : {Long(65536)}, fin : {TRUE},
          mask : BOOLEAN, key : CallKeys]

\* Buffers no call of Packet.frame returns: cut short, with a length in
\* more bytes than it needs, with a reserved opcode.
RawBuffers ==
    { <<>>, <<129>>, <<129, 1>>, <<129, 126, 0>>, <<129, 126, 0, 1, 65>>,
      <<130, 127, 0, 0, 0, 0, 0, 0, 0, 2, 7, 8>>, <<130, 127, 0, 0, 0>>,
      <<129, 129, 1, 2>>, <<137, 127>>, <<136, 126, 0, 2, 3, 232>>,
      <<139, 0>>, <<11, 0>>, <<8, 0>>, <<136, 129, 1, 2, 3, 4, 64>>,
      <<136, 1>>, <<193, 1, 65>> }
RawInputs == [stage : {"raw"}, bytes : RawBuffers]

InitCodec ==
    /\ ConnInit
    /\ protocols = <<>> /\ ~has_timeout /\ nonce = 1
    /\ codec \in FrameInputs \cup RawInputs

\* Packet.frame(opcode, payload, fin, false, mask)
CodecFrame ==
    /\ codec.stage = "input"
    /\ LET f == frame(codec.opcode, codec.payload, codec.fin, FALSE, codec.mask, codec.key)
       IN  codec' = [stage |-> "framed", opcode |-> codec.opcode,
                     payload |-> codec.payload, fin |-> codec.fin,
                     mask |-> codec.mask, key |-> codec.key,
                     bytes |-> f.bytes, after |-> f.payload]
    /\ UNCHANGED conn_vars

\* new Packet(bytes), of the buffer frame returned
CodecPacket ==
    /\ codec.stage = "framed"
    /\ codec' = [codec EXCEPT !.stage = "parsed"] @@ [packet |-> Packet(codec.bytes)]
    /\ UNCHANGED conn_vars

\* new Packet(bytes), of a raw buffer
CodecPacketRaw ==
    /\ codec.stage = "raw"
    /\ codec' = [stage |-> "parsed-raw", bytes |-> codec.bytes,
                 packet |-> Packet(codec.bytes)]
    /\ UNCHANGED conn_vars

NextCodec == CodecFrame \/ CodecPacket \/ CodecPacketRaw
SpecCodec == InitCodec /\ [][NextCodec]_vars

(***************************************************************************)
(* The claims about the codec, under SpecCodec.                            *)
(***************************************************************************)
Parsed == codec.stage = "parsed"

\* C4, as stated: decoding the frame that encode(opcode, payload, fin=true,
\* rsv1=false, mask=true) returns yields the original opcode and the
\* original payload bytes, for every opcode of {0,1,2,8,9,10}, every
\* payload and every mask key.
C4_RoundTrip ==
    (Parsed /\ codec.fin /\ codec.mask)
        => /\ codec.packet.opcode = Some(codec.opcode)
           /\ codec.packet.payload = Some(codec.payload)

\* C4, amended: the round trip yields the original opcode and payload for
\* the opcodes 0, 1, 2 with any payload, for 9 and 10 with a payload of at
\* most 125 bytes and for 8 with an empty payload; for opcode 8 with a
\* payload of 2 to 125 bytes it yields opcode 8, the first two payload
\* bytes (big-endian) as close_code and the bytes after them as payload;
\* a Close payload of one byte and a control payload of more than 125
\* bytes make the decoder throw.  All of it for every mask key, the key of
\* four zeros included.
C4_RoundTripAmended ==
    (Parsed /\ codec.fin /\ codec.mask)
        => LET op == codec.opcode
               P == codec.payload
               pk == codec.packet
           IN  /\ (op < 8 \/ (op \in {9, 10} /\ Len(P) <= 125) \/ (op = 8 /\ Len(P) = 0))
                     => /\ pk.threw = "" /\ pk.state = COMPLETE
                        /\ pk.opcode = Some(op)
                        /\ pk.payload = Some(P)
               /\ (op = 8 /\ Len(P) >= 2 /\ Len(P) <= 125)
                     => /\ pk.threw = "" /\ pk.state = COMPLETE
                        /\ pk.opcode = Some(8)
                        /\ pk.close_code # None
                        /\ WriteBE(pk.close_code[1], 2) \o pk.payload[1] = P
               /\ ((op = 8 /\ Len(P) = 1) \/ (op >= 8 /\ Len(P) > 125))
                     => pk.threw # "" /\ pk.state # COMPLETE

\* C4's case: a masked close frame with a code, under a key that changes
\* the bytes on the wire, has been encoded and decoded again.
C4_Witness ==
    /\ Parsed /\ codec.fin /\ codec.mask
    /\ codec.opcode = 8 /\ Len(codec.payload) >= 2
    /\ codec.after # codec.payload
    /\ codec.packet.state = COMPLETE

\* C5: decoding a frame whose opcode is a control opcode (>= 8) throws, and
\* yields no frame, whenever its 7-bit length is over 125 (the markers 126
\* and 127 included) or its fin bit is clear.
C5_ControlFrameLegality ==
    (/\ codec.stage \in {"parsed", "parsed-raw"}
     /\ Len(codec.bytes) >= 2
     /\ codec.bytes[1] % 16 >= 8
     /\ (codec.bytes[2] % 128 > 125 \/ codec.bytes[1] < 128))
        => /\ codec.packet.threw \in {"control frames must be less than 125 bytes.",
                                      "control frames must not be fragmented."}
           /\ codec.packet.state # COMPLETE
           /\ codec.packet.payload = None

\* C5's case: a fragmented control frame of a legal length has been decoded.
C5_Witness ==
    /\ codec.stage \in {"parsed", "parsed-raw"}
    /\ Len(codec.bytes) >= 2
    /\ codec.bytes[1] \in 8..15
    /\ codec.bytes[2] % 128 <= 125
    /\ codec.packet.threw = "control frames must not be fragmented."

\* C6: decoding a complete Close frame throws when its payload length is
\* exactly 1; with a length of 2 or more its first two payload bytes
\* (big-endian) become close_code and leave the payload; with length 0 the
\* frame has no close_code.  (A length over 125 never reaches this: the
\* control frame check of C5 refuses it at the header.)
C6_CloseFrame ==
    (Parsed /\ codec.opcode = 8 /\ codec.fin /\ Len(codec.payload) <= 125)
        => LET P == codec.payload
               pk == codec.packet
           IN  /\ Len(P) = 1 => /\ pk.threw = "close frame length is not valid."
                                /\ pk.state # COMPLETE
               /\ Len(P) >= 2 => /\ pk.threw = "" /\ pk.state = COMPLETE
                                 /\ pk.close_code = Some(256 * P[1] + P[2])
                                 /\ pk.payload = Some(SubSeq(P, 3, Len(P)))
               /\ Len(P) = 0 => /\ pk.threw = "" /\ pk.state = COMPLETE
                                /\ pk.close_code = None
                                /\ pk.payload = Some(<<>>)

\* C6's case: a Close frame with a payload of one byte has been decoded.
C6_Witness ==
    /\ Parsed /\ codec.opcode = 8 /\ codec.fin /\ Len(codec.payload) = 1
    /\ codec.packet.threw = "close frame length is not valid."

(***************************************************************************)
(* The claims about the connection, under Spec.                            *)
(***************************************************************************)
RECURSIVE Concat(_)
Concat(chunks) == IF Len(chunks) = 0 THEN <<>> ELSE Head(chunks) \o Concat(Tail(chunks))

Count(name) == Cardinality({i \in 1..Len(events) : events[i].name = name})
\* Every event named a comes before every event named b.
Before(a, b) ==
    \A i, j \in 1..Len(events) : (events[i].name = a /\ events[j].name = b) => i < j

\* C1: Closed is terminal: once the state is CLOSED, no user call and no
\* event of the request or the socket changes it.
C1_ClosedIsTerminal == [][state = CLOSED => state' = CLOSED]_vars

\* C2: when the chunks delivered so far make up the bytes of one or two
\* whole frames, the packets dispatched are those that one delivery of all
\* those bytes dispatches, however the bytes were cut into chunks.
C2_ChunkBoundaryIndependence ==
    (Concat(delivered) \in WellFormed \cup {f \o g : f, g \in WellFormed})
        => dispatched = Dispatch(Packet(Concat(delivered)))

\* C3: a delivery that holds two whole frames back to back dispatches both,
\* in the order of the bytes.
C3_EveryFrameOfADelivery ==
    [][\A f, g \in WellFormed :
          (delivered' = Append(delivered, f \o g))
              => dispatched' = dispatched \o Dispatch(Packet(f)) \o Dispatch(Packet(g))]_vars

ProtocolErrors == {"control frames must be less than 125 bytes.",
                   "control frames must not be fragmented.",
                   "close frame length is not valid."}

\* C7: a protocol error met while decoding a delivery fails the connection:
\* the state does not stay OPEN.
C7_ProtocolErrorIsFatal == (thrown \in ProtocolErrors) => state # OPEN

\* The subprotocol table of the handshake: what was requested, what the
\* server replied (an absent or empty header names no subprotocol).
TableAccepts(requested, replied) ==
    LET none == replied \in {None, Some(<<>>)}
    IN  CASE requested = {} /\ none -> TRUE
          [] requested # {} /\ none -> FALSE
          [] requested = {} /\ ~none -> FALSE
          [] OTHER -> replied[1] \in requested

\* C8: the upgrade handler, run to its end, opens the connection (OPEN and
\* the 'open' event) if and only if the Sec-WebSocket-Accept header equals
\* the digest of the nonce and the subprotocol table accepts.
C8_HandshakeAcceptance ==
    [][(pc = "upgrade" /\ pc' = "idle")
          => ((state' = OPEN /\ events' = Append(events, Event("open", 0, None, "")))
                 <=> (/\ resp.accept = Some(Digest(nonce))
                      /\ TableAccepts(protocol_set, resp.protocol)))]_vars

\* C8's case: a connection that requested subprotocols has been opened.
C8_Witness == state = OPEN /\ protocol_set # {} /\ pc = "idle" /\ socket = "set"

HandshakeFailures ==
    {"sec-websocket-accept header is not valid.",
     "nothing was requested, but the server sent a subprotocol.",
     "server sent a invalid subprotocol.",
     "server sent no subprotocol.",
     "unexpected server response",
     "opening handshake has timed out.",
     "websocket was closed before the connection was established."}

\* C9: once a handshake failure has been handled, the state is CLOSED with
\* close code 1006, one 'error' event was emitted, before the 'close'
\* event, no 'open' event was emitted, and the 'http-response' event of a
\* response that was no upgrade came before the 'error'.
C9_HandshakeFailure ==
    (pc = "idle" /\ \E i \in 1..Len(events) : events[i].text \in HandshakeFailures)
        => /\ state = CLOSED
           /\ closeCode = 1006
           /\ Count("error") = 1
           /\ Count("close") = 1
           /\ Before("error", "close")
           /\ Count("open") = 0
           /\ Before("http-response", "error")

HasDuplicate(list) == \E i, j \in 1..Len(list) : i < j /\ list[i] = list[j]
HasBadToken(list) ==
    \E i \in 1..Len(list) : list[i] = <<>> \/ \E k \in 1..Len(list[i]) : list[i][k] \notin TokenChars

\* C10: a requested subprotocol list with a token outside the token class
\* or with a token twice makes the constructor throw before the request is
\* issued: no request, no event, nothing written.
C10_ValidationBeforeIO ==
    (phase # "new" /\ (HasDuplicate(protocols) \/ HasBadToken(protocols)))
        => /\ phase = "threw"
           /\ thrown = "subprotocol cannot be duplicated or invalid."
           /\ req = "none"
           /\ events = <<>>
           /\ written = <<>>

\* C10's case: the constructor has thrown for a list that names a valid
\* token twice.
C10_Witness ==
    /\ phase = "threw"
    /\ HasDuplicate(protocols) /\ ~HasBadToken(protocols)

(***************************************************************************)
(* The claims about the user's calls, under Spec.  A step is a call of     *)
(* send, ping, pong or close when it satisfies that action.                *)
(***************************************************************************)
IsSend == \E data \in SendData, key \in CallKeys : send(data, key)
IsPing == \E data \in PingData, key \in CallKeys : ping(data, key)
IsPong == \E data \in PingData, key \in CallKeys : pong(data, key)
IsClose == \E code \in CloseCodes, reason \in CloseReasons, key \in CallKeys :
              close(code, reason, key)

\* C11: send, ping and pong called while the state is CONNECTING throw their
\* state error, write nothing, emit nothing and leave the state, the close
\* code and the close reason as they were.
C11_CallsWhileConnecting ==
    [][state = CONNECTING
          => /\ IsSend => thrown' = "send -> websocket is connecting."
             /\ IsPing => thrown' = "ping -> websocket is connecting."
             /\ IsPong => thrown' = "pong -> websocket is connecting."
             /\ (IsSend \/ IsPing \/ IsPong)
                   => UNCHANGED <<written, events, state, closeCode, closeReason>>]_vars

\* C11's case: ping was called while the state was CONNECTING, and threw.
C11_Witness ==
    /\ state = CONNECTING
    /\ thrown = "ping -> websocket is connecting."
    /\ written = <<>> /\ events = <<>>

\* The last buffer written is a masked frame of this opcode and payload.
WroteMasked(before, after, opcode, payload) ==
    /\ Len(after) = Len(before) + 1
    /\ SubSeq(after, 1, Len(before)) = before
    /\ LET w == after[Len(after)]
       IN  /\ w[1] = 128 + opcode
           /\ w[2] >= 128
           /\ Packet(w).threw = ""
           /\ Packet(w).payload = Some(payload)

\* C12: ping and pong with a payload of more than 125 bytes throw their
\* size error and write nothing; with a payload of at most 125 bytes, in a
\* state other than CONNECTING, they write one masked frame of opcode 9
\* (ping) or 10 (pong).
C12_PingPongSize ==
    [][\A data \in PingData, key \in CallKeys :
          /\ (ping(data, key) /\ state # CONNECTING)
                => IF Len(data) > 125
                   THEN /\ thrown' = "payload for PING(0x09) is longer than 125 bytes."
                        /\ written' = written
                   ELSE WroteMasked(written, written', 9, data)
          /\ (pong(data, key) /\ state # CONNECTING)
                => IF Len(data) > 125
                   THEN /\ thrown' = "payload for PONG(0x0a) is longer than 125 bytes."
                        /\ written' = written
                   ELSE WroteMasked(written, written', 10, data)]_vars

ClosedBeforeOpen == "websocket was closed before the connection was established."

\* C13: close() called while the state is CONNECTING emits 'error', then
\* 'close' with code 1006, and leaves the state CLOSED; and once it has done
\* so, no later step of the handshake moves the state to OPEN.
C13_CloseWhileConnecting ==
    [][/\ (state = CONNECTING /\ IsClose)
             => /\ state' = CLOSED
                /\ closeCode' = 1006
                /\ events' = events \o <<Event("error", 0, None, ClosedBeforeOpen),
                                         Event("close", 1006, Some(closeReason), "")>>
       /\ (\E i \in 1..Len(events) : events[i].text = ClosedBeforeOpen)
             => state' # OPEN]_vars

\* C14: a call of close() leaves the state CLOSING or CLOSED, and a call of
\* close() in one of these two states changes neither the state, the close
\* code nor the close reason, writes nothing and emits nothing: a second
\* call right after a first is such a call.  (In CLOSING the second call
\* ends the socket, this.socket?.end(); it writes no frame.)
C14_CloseIdempotent ==
    [][IsClose
          => /\ state' \in {CLOSING, CLOSED}
             /\ state \in {CLOSING, CLOSED}
                   => UNCHANGED <<state, closeCode, closeReason, written, events>>]_vars

\* C14's case: close() was called twice on an open connection; the second
\* call, made in CLOSING, ended the socket, and one Close frame was written.
C14_Witness ==
    /\ state = CLOSING /\ transport = "ended" /\ steps = 2
    /\ Len(written) = 1 /\ closeCode = 1000

\* C15: close(code, reason) called in OPEN with a reason of more than 123
\* bytes throws the size error and leaves the state OPEN, the close code
\* and the close reason as they were, and writes no Close frame.
C15_CloseReasonTooLong ==
    [][\A code \in CloseCodes, reason \in CloseReasons, key \in CallKeys :
          (state = OPEN /\ Len(reason) > 123 /\ close(code, reason, key))
             => /\ thrown' = "close reason must be less than 132 bytes."
                /\ UNCHANGED <<state, closeCode, closeReason, written>>]_vars

(***************************************************************************)
(* The claims about the socket's events, under Spec.                       *)
(***************************************************************************)
\* C16: a delivery of a whole Ping frame with payload P writes a Pong frame
\* whose unmasked payload is P and emits a 'ping' event whose payload is P,
\* the bytes received.
C16_PingReply ==
    [][(delivered' = Append(delivered, F_ping))
          => /\ WroteMasked(written, written', 10, <<66>>)
             /\ events' = Append(events, Event("ping", 0, Some(<<66>>), ""))]_vars

\* No close() has recorded a code and a reason, and no Close frame has.
NothingRecorded ==
    /\ \A i \in 1..Len(written) : written[i][1] # 136
    /\ \A i \in 1..Len(dispatched) : dispatched[i].opcode # 8

\* C17: the close of the socket moves the state to CLOSED and emits 'close'
\* with the close code and the close reason last recorded: 1006 and the
\* empty reason when neither close() nor a Close frame recorded any.
C17_TransportClose ==
    [][(transport # "closed" /\ transport' = "closed")
          => /\ state' = CLOSED
             /\ events' = Append(events, Event("close", closeCode, Some(closeReason), ""))
             /\ NothingRecorded => (closeCode = 1006 /\ closeReason = <<>>)]_vars

\* C17's case: the socket closed after close(1000, "x") on an open
\* connection, and the 'close' event carried 1000 and "x".
C17_Witness ==
    /\ transport = "closed" /\ state = CLOSED
    /\ Len(events) > 0
    /\ events[Len(events)] = Event("close", 1000, Some(<<120>>), "")

\* C18: a delivery of a whole Close frame records the code and the reason
\* the frame carries (a frame with a code and no reason records the code
\* and the empty reason), records 1006 and 'Abnormal Closure' only when the
\* frame carries no code, and destroys the socket.
C18_InboundClose ==
    [][/\ (delivered' = Append(delivered, F_close))
             => (closeCode' = 1000 /\ closeReason' = <<67>> /\ transport' = "destroyed")
       /\ (delivered' = Append(delivered, F_close_code))
             => (closeCode' = 1001 /\ closeReason' = <<>> /\ transport' = "destroyed")
       /\ (delivered' = Append(delivered, F_close_empty))
             => (closeCode' = 1006 /\ closeReason' = AbnormalClosure
                 /\ transport' = "destroyed")]_vars

\* C19: a call of send(data) in a state other than CONNECTING writes one
\* masked frame, text (1) or binary (2), of data.
C19_SendWritesOnce ==
    [][\A data \in SendData, key \in CallKeys :
          (state # CONNECTING /\ send(data, key))
             => WroteMasked(written, written', IF data.is_buf THEN 2 ELSE 1,
                            data.bytes)]_vars

\* C20: Packet.frame leaves the payload buffer of its caller as it was, for
\* mask true and for mask false.
C20_EncodeIsPure ==
    (codec.stage \in {"framed", "parsed"}) => codec.after = codec.payload

\* C21: when the socket closes after an I/O error of the transport on an
\* opened connection, the state is CLOSED and the last two events are an
\* 'error' event and the 'close' event, in this order.
C21_TransportError ==
    [][(transport = "errored" /\ transport' = "closed")
          => /\ state' = CLOSED
             /\ Len(events') >= 2
             /\ events'[Len(events') - 1].name = "error"
             /\ events'[Len(events')].name = "close"]_vars

\* C22: a delivery that ends before its frame is complete triggers no
\* handling: no event, no write, no close code or reason recorded, the
\* socket not destroyed, no case of the switch entered.
C22_DispatchOnlyCompleteFrames ==
    [][\A data \in Chunks :
          (delivered' = Append(delivered, data) /\ Packet(data).state # COMPLETE)
             => UNCHANGED <<events, written, closeCode, closeReason, transport,
                            dispatched>>]_vars

\* The Close frames written so far.
CloseFramesWritten == {i \in 1..Len(written) : written[i][1] = 136}

\* C23: at most one Close frame is written over the life of a connection.
C23_AtMostOneCloseFrame == Cardinality(CloseFramesWritten) <= 1

\* C23's case: close() wrote its Close frame and a further close(), made in
\* CLOSING, ended the socket without writing another.
C23_Witness ==
    /\ Cardinality(CloseFramesWritten) = 1
    /\ transport = "ended"
    /\ written = <<frame(8, WriteBE(1000, 2) \o <<120>>, TRUE, FALSE, TRUE,
                         <<1, 2, 3, 4>>).bytes>>

\* C24: the 'close' event is emitted at most once, and the state is CLOSED
\* when it has been emitted last.
C24_CloseEventOnce ==
    /\ Count("close") <= 1
    /\ (Len(events) > 0 /\ events[Len(events)].name = "close") => state = CLOSED

(***************************************************************************)
(* The claim about the decoder's termination, under SpecCodec.             *)
(***************************************************************************)
\* The packet as each stage of the constructor leaves it.
StagesOf(data) ==
    LET s1 == StageHeader(NewPacket(data))
        s2 == StageLength(s1)
        s3 == StageMaskKey(s2)
        s4 == StagePayload(s3)
    IN  {s1, s2, s3, s4}

\* C25, as stated: the constructor returns or throws for every buffer,
\* consume's loop is never entered, and after every stage the size counter
\* equals the length of the remaining buffer.
C25_SizeEqualsRemaining ==
    (codec.stage \in {"parsed", "parsed-raw"})
        => \A p \in StagesOf(codec.bytes) : ~p.hangs /\ p.size = Len(p.data)

\* C25, amended: the constructor returns or throws for every buffer and
\* consume's loop is never entered, because after every stage the size
\* counter is at least 0 and at most the length of the remaining buffer
\* (consume(n) with n the whole buffer takes n from the counter and leaves
\* the buffer as it is), so a stage guard size >= n implies n <= data.length.
C25_DecodeTerminates ==
    (codec.stage \in {"parsed", "parsed-raw"})
        => /\ ~codec.packet.hangs
           /\ \A p \in StagesOf(codec.bytes) :
                 ~p.hangs /\ p.size >= 0 /\ p.size <= Len(p.data)

\* C25's case: a buffer that ends inside the 16-bit length has been decoded:
\* the guard of the stage kept consume(2) from a buffer of one byte.
C25_Witness ==
    /\ codec.stage = "parsed-raw"
    /\ codec.bytes = <<129, 126, 0>>
    /\ codec.packet.state = GET_PAYLOAD_LENGTH_16
    /\ codec.packet.size = 1 /\ ~codec.packet.hangs
====
